---- MODULE Spec2Model ----
(***************************************************************************)
(* NexusMarket reputation contract: the review ledger (REVIEWS), the       *)
(* per-user review index (USER_REVIEWS), the derived aggregates (USERS)    *)
(* and the two state-changing handlers submit_review and flag_dispute,     *)
(* with the scoring function calculate_reputation_score.                   *)
(*                                                                         *)
(* Integer widths are scaled down so that TLC can enumerate them: u32 is   *)
(* U32Bits wide and Uint128 is U128Bits wide.  Times are whole seconds of  *)
(* env.block.time (u64 seconds, far from their range here).  Strings that  *)
(* take part in keys (addresses, review ids) are sequences of character    *)
(* codes.  A handler that returns an error leaves behind whatever it had   *)
(* already saved into the storage it was given.                            *)
(***************************************************************************)
EXTENDS Integers, Sequences, FiniteSets, TLC

VARIABLES
    REVIEWS,            \* Map<String, Review>
    USER_REVIEWS,       \* Map<(&Addr, String), String>
    USERS,              \* Map<&Addr, UserReputation>
    REPUTATION_PARAMS,  \* Item<ReputationParams>: <<>> when never saved, <<p>> otherwise
    time,               \* env.block.time of the next call, in seconds
    overflow_checks,    \* whether the build traps on primitive integer overflow
    last,               \* the most recent handler call and what it returned
    calls               \* number of handler calls made so far

vars == <<REVIEWS, USER_REVIEWS, USERS, REPUTATION_PARAMS, time, overflow_checks, last, calls>>

storage == <<REVIEWS, USER_REVIEWS, USERS>>

(***************************************************************************)
(* Bounds of the model.                                                    *)
(***************************************************************************)
MaxTime == 2
MaxCalls == 4
MaxCallsDeep == 5
U32Bits == 7
U128Bits == 28

U32Mod == 2^U32Bits
U128Mod == 2^U128Bits
U128Max == U128Mod - 1

(***************************************************************************)
(* Inputs.                                                                 *)
(***************************************************************************)
\* Addresses "a" and "b" as character codes.
Addrs == {<<97>>, <<98>>}
\* u8 ratings offered to submit_review: below, inside and above the valid range.
Ratings == {0, 1, 5, 6}
Contents == {"Great service!"}
Services == {"service1"}
Proofs == {"tx_proof_123"}
Signatures == {<<1, 2, 3>>}
Reasons == {"Fake review", "Spam"}
\* The caller of flag_dispute: "admin", who reviews nothing.
Flaggers == {<<97, 100, 109, 105, 110>>}

\* The parameters of the repository's tests, with the 30-day period in days.
TestParams ==
    [time_weight_factor |-> 10, volume_weight_factor |-> 5, dispute_penalty |-> 20,
     inactivity_decay_period |-> 30, decay_rate |-> 95]

\* A short decay period and a penalty of half the u32 range.
HarshParams ==
    [time_weight_factor |-> 10, volume_weight_factor |-> 5, dispute_penalty |-> U32Mod \div 2,
     inactivity_decay_period |-> 1, decay_rate |-> 95]

ParamsChoices == {<<>>, <<TestParams>>, <<HarshParams>>}

(***************************************************************************)
(* Storage maps.                                                           *)
(***************************************************************************)
EmptyMap == [k \in {} |-> 0]

Has(m, k) == k \in DOMAIN m

Save(m, k, v) == [x \in (DOMAIN m) \cup {k} |-> IF x = k THEN v ELSE m[x]]

(***************************************************************************)
(* format!("{}-{}", env.block.time.seconds(), info.sender)                 *)
(***************************************************************************)
RECURSIVE Digits(_)
Digits(n) == IF n < 10 THEN <<48 + n>> ELSE Digits(n \div 10) \o <<48 + (n % 10)>>

ReviewId(seconds, sender) == Digits(seconds) \o <<45>> \o sender

(***************************************************************************)
(* Integer arithmetic of the scoring function.                             *)
(***************************************************************************)
\* (a * b) mod m without forming the full product.
RECURSIVE MulMod(_, _, _)
MulMod(a, b, m) ==
    IF b = 0 THEN 0
    ELSE LET h == MulMod(a, b \div 2, m)
             d == (2 * h) % m
         IN  IF b % 2 = 1 THEN (d + (a % m)) % m ELSE d

MulOverflows(a, b) == b # 0 /\ a > U128Max \div b

\* u128::pow: the wrapped value, and whether the true value left the range.
RECURSIVE Pow(_, _)
Pow(b, e) ==
    IF e = 0 THEN [overflow |-> FALSE, value |-> 1]
    ELSE LET r == Pow(b, e - 1)
         IN  [overflow |-> r.overflow \/ MulOverflows(r.value, b),
              value    |-> MulMod(r.value, b, U128Mod)]

Ok(v) == [result |-> "Ok", value |-> v]
Err(e) == [result |-> e, value |-> 0]

\* user.total_reviews.saturating_sub(user.disputed_reviews)
BaseScore(user) ==
    IF user.total_reviews >= user.disputed_reviews
    THEN user.total_reviews - user.disputed_reviews
    ELSE 0

\* current_time.seconds() - user.last_activity.seconds()
TimeSinceLastActivity(user, current_time) == current_time - user.last_activity

\* The time weight: time_weight_factor inside the decay window, decay_rate ^ periods beyond it.
TimeWeight(user, params, current_time) ==
    LET time_since_last_activity == TimeSinceLastActivity(user, current_time)
    IN  IF time_since_last_activity > params.inactivity_decay_period
        THEN LET decay_periods == time_since_last_activity \div params.inactivity_decay_period
                 p == Pow(params.decay_rate, decay_periods % U32Mod)
             IN  IF p.overflow
                 THEN IF overflow_checks THEN Err("Panic") ELSE Ok(p.value)
                 ELSE Ok(p.value)
        ELSE Ok(params.time_weight_factor)

\* transaction_volume.multiply_ratio(volume_weight_factor, 100)
VolumeWeight(user, params) ==
    LET v == (user.transaction_volume * params.volume_weight_factor) \div 100
    IN  IF v > U128Max THEN Err("Panic") ELSE Ok(v)

\* user.disputed_reviews * params.dispute_penalty, a u32 product.
DisputePenalty(user, params) ==
    IF user.disputed_reviews > 0
    THEN LET product == user.disputed_reviews * params.dispute_penalty
         IN  IF product >= U32Mod
             THEN IF overflow_checks THEN Err("Panic") ELSE Ok(product % U32Mod)
             ELSE Ok(product)
    ELSE Ok(0)

calculate_reputation_score(user, params, current_time) ==
    LET base_score == BaseScore(user)
        time_weight == TimeWeight(user, params, current_time)
        volume_weight == VolumeWeight(user, params)
        dispute_penalty == DisputePenalty(user, params)
    IN  IF time_weight.result # "Ok" THEN time_weight
        ELSE IF volume_weight.result # "Ok" THEN volume_weight
        ELSE IF dispute_penalty.result # "Ok" THEN dispute_penalty
        ELSE IF MulOverflows(base_score, time_weight.value) THEN Err("Overflow")
        ELSE LET product == base_score * time_weight.value
             IN  IF product > U128Max - volume_weight.value THEN Err("Overflow")
                 ELSE LET weighted_score == product + volume_weight.value
                      IN  IF weighted_score >= dispute_penalty.value
                          THEN Ok(weighted_score - dispute_penalty.value)
                          ELSE Ok(0)

verify_transaction_proof(proof) == TRUE

(***************************************************************************)
(* update_user_reputation                                                  *)
(***************************************************************************)
\* Mutant of DefaultReputation: a fresh record starts with one unit of volume.
DefaultReputationWithVolume(user, now) ==
    [address |-> user, reputation_score |-> 0, total_reviews |-> 0, disputed_reviews |-> 0,
     last_activity |-> now, transaction_volume |-> 1]

DefaultReputation(user, now) ==
    [address |-> user, reputation_score |-> 0, total_reviews |-> 0, disputed_reviews |-> 0,
     last_activity |-> now, transaction_volume |-> 0]

\* The review ids the index holds under the prefix `user`.
IndexedIds(index, user) == {index[k] : k \in {x \in DOMAIN index : x[1] = user}}

\* Mutant of CountTotal: counts the whole ledger instead of the user's reviews.
CountTotalWholeLedger(reviews, ids) == Cardinality(DOMAIN reviews) % U32Mod

\* reviews.len() as u32
CountTotal(reviews, ids) == Cardinality(ids) % U32Mod

\* Mutant of CountDisputed: the filter is negated.
CountUndisputed(reviews, ids) == Cardinality({id \in ids : ~reviews[id].is_disputed}) % U32Mod

\* reviews.iter().filter(|r| r.is_disputed).count() as u32
CountDisputed(reviews, ids) == Cardinality({id \in ids : reviews[id].is_disputed}) % U32Mod

\* Lines 103-105: the counts and last_activity are assigned before the score is computed.
Recounted(user_rep, reviews, ids, now) ==
    [user_rep EXCEPT !.total_reviews = CountTotal(reviews, ids),
                     !.disputed_reviews = CountDisputed(reviews, ids),
                     !.last_activity = now]

\* Mutant of ScoreInput: the score is computed before last_activity is overwritten.
ScoreInputBeforeTouch(loaded, recounted) ==
    [recounted EXCEPT !.last_activity = loaded.last_activity]

\* The record handed to calculate_reputation_score.
ScoreInput(loaded, recounted) == recounted

\* Returns the result and the USERS map after the call.
update_user_reputation(users, reviews, index, params_item, user, now) ==
    LET loaded == IF Has(users, user) THEN users[user] ELSE DefaultReputation(user, now)
        ids == IndexedIds(index, user)
    IN  IF params_item = <<>> THEN [result |-> "NotFound", USERS |-> users]
        ELSE IF \E id \in ids : ~Has(reviews, id) THEN [result |-> "NotFound", USERS |-> users]
        ELSE LET params == params_item[1]
                 user_rep == Recounted(loaded, reviews, ids, now)
                 score == calculate_reputation_score(ScoreInput(loaded, user_rep), params, now)
             IN  IF score.result # "Ok" THEN [result |-> score.result, USERS |-> users]
                 ELSE [result |-> "Ok",
                       USERS |-> Save(users, user,
                                      [user_rep EXCEPT !.reputation_score = score.value])]

(***************************************************************************)
(* Handlers                                                                *)
(***************************************************************************)
NoCall ==
    [op |-> "none", result |-> "none", sender |-> <<>>, user |-> <<>>, review_id |-> <<>>,
     rating |-> 0, reason |-> "", repeat |-> FALSE, was_disputed |-> FALSE]

\* Whether a recomputation for `user` over the ledger `reviews` repeats the one the
\* previous call made: same user, same block time, same ledger.
Repeats(user, reviews) ==
    last.op # "none" /\ last.result = "Ok" /\ last.user = user /\ reviews = REVIEWS

\* Mutant of RatingInRange: the lower bound is not checked.
RatingAtMostFive(rating) == ~(rating > 5)

RatingInRange(rating) == ~(rating < 1 \/ rating > 5)

NewReview(review_id, service, rating, content, sender, now, proof, signature) ==
    [id |-> review_id, service |-> service, rating |-> rating, content |-> content,
     reviewer |-> sender, timestamp |-> now, transaction_proof |-> proof,
     signature |-> signature, is_disputed |-> FALSE, dispute_reason |-> <<>>]

\* Mutant of IndexKey: the parts of the composite key are swapped.
IndexKeySwapped(user, review_id) == <<review_id, user>>

\* The composite key (&info.sender, review_id) of USER_REVIEWS.
IndexKey(user, review_id) == <<user, review_id>>

submit_review(sender, service, rating, content, proof, signature) ==
    /\ calls' = calls + 1
    /\ UNCHANGED <<REPUTATION_PARAMS, time, overflow_checks>>
    /\ LET review_id == ReviewId(time, sender)
           call == [op |-> "submit_review", result |-> "Ok", sender |-> sender, user |-> sender,
                    review_id |-> review_id, rating |-> rating, reason |-> "", repeat |-> FALSE,
                    was_disputed |-> FALSE]
       IN  IF ~RatingInRange(rating)
           THEN /\ last' = [call EXCEPT !.result = "InvalidInput"]
                /\ UNCHANGED storage
           ELSE IF ~verify_transaction_proof(proof)
           THEN /\ last' = [call EXCEPT !.result = "InvalidProof"]
                /\ UNCHANGED storage
           ELSE LET review == NewReview(review_id, service, rating, content, sender, time,
                                        proof, signature)
                    reviews == Save(REVIEWS, review_id, review)
                    index == Save(USER_REVIEWS, IndexKey(sender, review_id), review_id)
                    r == update_user_reputation(USERS, reviews, index, REPUTATION_PARAMS,
                                                sender, time)
                IN  /\ REVIEWS' = reviews
                    /\ USER_REVIEWS' = index
                    /\ USERS' = r.USERS
                    /\ last' = [call EXCEPT !.result = r.result,
                                             !.repeat = Repeats(sender, reviews)]

\* Mutant of LoadReview: a missing record is replaced by an empty one (may_load and a
\* default) instead of failing.
LoadReviewOrDefault(reviews, review_id) ==
    IF Has(reviews, review_id) THEN <<reviews[review_id]>>
    ELSE <<NewReview(review_id, "", 0, "", <<>>, 0, "", <<>>)>>

\* REVIEWS.load(deps.storage, review_id): <<>> stands for the NotFound error.
LoadReview(reviews, review_id) ==
    IF Has(reviews, review_id) THEN <<reviews[review_id]>> ELSE <<>>

\* Mutant of Disputed: the flag is set and the reason is left as it was.
DisputedKeepReason(review, reason) == [review EXCEPT !.is_disputed = TRUE]

\* review.is_disputed = true; review.dispute_reason = Some(reason.clone())
Disputed(review, reason) ==
    [review EXCEPT !.is_disputed = TRUE, !.dispute_reason = <<reason>>]

\* Mutant of RecomputeTarget: the reputation of the caller is recomputed.
RecomputeCaller(review, sender) == sender

\* The user whose reputation flag_dispute recomputes: &review.reviewer.
RecomputeTarget(review, sender) == review.reviewer

flag_dispute(sender, review_id, reason) ==
    /\ calls' = calls + 1
    /\ UNCHANGED <<REPUTATION_PARAMS, time, overflow_checks, USER_REVIEWS>>
    /\ LET call == [op |-> "flag_dispute", result |-> "Ok", sender |-> sender, user |-> <<>>,
                    review_id |-> review_id, rating |-> 0, reason |-> reason, repeat |-> FALSE,
                    was_disputed |-> FALSE]
           loaded == LoadReview(REVIEWS, review_id)
       IN  IF loaded = <<>>
           THEN /\ last' = [call EXCEPT !.result = "NotFound"]
                /\ UNCHANGED <<REVIEWS, USERS>>
           ELSE LET review == Disputed(loaded[1], reason)
                    reviews == Save(REVIEWS, review_id, review)
                    r == update_user_reputation(USERS, reviews, USER_REVIEWS, REPUTATION_PARAMS,
                                                RecomputeTarget(review, sender), time)
                IN  /\ REVIEWS' = reviews
                    /\ USERS' = r.USERS
                    /\ last' = [call EXCEPT !.result = r.result, !.user = review.reviewer,
                                             !.repeat = Repeats(review.reviewer, reviews),
                                             !.was_disputed = loaded[1].is_disputed]

\* The block time moves on between calls.
AdvanceTime ==
    /\ time < MaxTime
    /\ time' = time + 1
    /\ last' = NoCall
    /\ UNCHANGED <<REVIEWS, USER_REVIEWS, USERS, REPUTATION_PARAMS, overflow_checks, calls>>

\* Review ids a caller may name: those in the ledger, and those a submission in this
\* block would produce (unknown until it is made).
ReviewIds == (DOMAIN REVIEWS) \cup {ReviewId(time, a) : a \in Addrs}

Init ==
    /\ REVIEWS = EmptyMap
    /\ USER_REVIEWS = EmptyMap
    /\ USERS = EmptyMap
    /\ REPUTATION_PARAMS \in ParamsChoices
    /\ time = 0
    /\ overflow_checks \in BOOLEAN
    /\ last = NoCall
    /\ calls = 0

SubmitReview ==
    /\ calls < MaxCalls
    /\ \E sender \in Addrs, service \in Services, rating \in Ratings, content \in Contents,
          proof \in Proofs, signature \in Signatures :
           submit_review(sender, service, rating, content, proof, signature)

FlagDispute ==
    /\ calls < MaxCalls
    /\ \E sender \in Flaggers, review_id \in ReviewIds, reason \in Reasons :
           flag_dispute(sender, review_id, reason)

Next == SubmitReview \/ FlagDispute \/ AdvanceTime

Spec == Init /\ [][Next]_vars

(***************************************************************************)
(* One reviewer over a longer run, under the harsh parameters: the runs in *)
(* which a reviewer with three reviews collects two disputes.              *)
(***************************************************************************)
InitDeep ==
    /\ REVIEWS = EmptyMap
    /\ USER_REVIEWS = EmptyMap
    /\ USERS = EmptyMap
    /\ REPUTATION_PARAMS = <<HarshParams>>
    /\ time = 0
    /\ overflow_checks \in BOOLEAN
    /\ last = NoCall
    /\ calls = 0

SubmitReviewDeep ==
    /\ calls < MaxCallsDeep
    /\ \E service \in Services, rating \in {1, 5}, content \in Contents,
          proof \in Proofs, signature \in Signatures :
           submit_review(<<97>>, service, rating, content, proof, signature)

FlagDisputeDeep ==
    /\ calls < MaxCallsDeep
    /\ \E sender \in Flaggers, review_id \in DOMAIN REVIEWS, reason \in Reasons :
           flag_dispute(sender, review_id, reason)

NextDeep == SubmitReviewDeep \/ FlagDisputeDeep \/ AdvanceTime

SpecDeep == InitDeep /\ [][NextDeep]_vars

(***************************************************************************)
(* Properties                                                              *)
(***************************************************************************)
IsCall(c) == c.op \in {"submit_review", "flag_dispute"}

Succeeded(c) == IsCall(c) /\ c.result = "Ok"

\* The ledger entries whose reviewer is u.
LedgerOf(reviews, u) == {id \in DOMAIN reviews : reviews[id].reviewer = u}

DisputedOf(reviews, u) == {id \in LedgerOf(reviews, u) : reviews[id].is_disputed}

\* C1: after every successful submit_review by u, the stored total_reviews of u is the
\* number of ledger entries whose reviewer is u.
C1_TotalMatchesLedger ==
    (last.op = "submit_review" /\ last.result = "Ok") =>
        /\ Has(USERS, last.sender)
        /\ USERS[last.sender].total_reviews = Cardinality(LedgerOf(REVIEWS, last.sender))

\* A successful submission by a user who has two reviews, one of them disputed, while
\* another user has a review too.
C1_Witness ==
    /\ last.op = "submit_review" /\ last.result = "Ok"
    /\ Cardinality(LedgerOf(REVIEWS, last.sender)) = 2
    /\ DisputedOf(REVIEWS, last.sender) # {}
    /\ \E id \in DOMAIN REVIEWS : REVIEWS[id].reviewer # last.sender

\* C2: after every successful flag_dispute on a review of u, the stored disputed_reviews
\* of u is the number of u's disputed ledger reviews; and every stored UserReputation
\* has disputed_reviews <= total_reviews.
C2_DisputedMatchesLedger ==
    /\ (last.op = "flag_dispute" /\ last.result = "Ok") =>
           /\ Has(USERS, last.user)
           /\ USERS[last.user].disputed_reviews = Cardinality(DisputedOf(REVIEWS, last.user))
    /\ \A u \in DOMAIN USERS : USERS[u].disputed_reviews <= USERS[u].total_reviews

\* A successful flag on a user with two reviews of which exactly one is disputed.
C2_Witness ==
    /\ last.op = "flag_dispute" /\ last.result = "Ok"
    /\ Cardinality(LedgerOf(REVIEWS, last.user)) = 2
    /\ Cardinality(DisputedOf(REVIEWS, last.user)) = 1
    /\ USERS[last.user].disputed_reviews = 1

\* The parameters in force (only read where REPUTATION_PARAMS was saved).
Params == REPUTATION_PARAMS[1]

\* The elapsed time a recomputation for u at the current block time sees when it reads
\* the last_activity stored before the call (zero for a user without a record).
ElapsedBefore(u) == IF Has(USERS, u) THEN time - USERS[u].last_activity ELSE 0

\* The score the specification's formula gives for the counts of `rep` and the time
\* weight w, in unbounded integers.
FormulaScore(rep, w) ==
    LET weighted == (rep.total_reviews - rep.disputed_reviews) * w
                    + (rep.transaction_volume * Params.volume_weight_factor) \div 100
        penalty == rep.disputed_reviews * Params.dispute_penalty
    IN  IF weighted >= penalty THEN weighted - penalty ELSE 0

\* C3: a recomputation at time now uses now minus the last_activity stored before the
\* call; when that exceeds inactivity_decay_period the persisted score is computed with
\* timeWeight = decay_rate ^ (elapsed / inactivity_decay_period).
C3_DecayUsesPreviousActivity ==
    [][(Succeeded(last') /\ ElapsedBefore(last'.user) > Params.inactivity_decay_period) =>
          USERS'[last'.user].reputation_score =
              FormulaScore(USERS'[last'.user],
                           Pow(Params.decay_rate,
                               ElapsedBefore(last'.user) \div Params.inactivity_decay_period).value)
      ]_vars

\* C4: once a review id's record is disputed, that id's record is disputed in every
\* later state.
C4_DisputeIsOneWay ==
    [][\A id \in DOMAIN REVIEWS :
          REVIEWS[id].is_disputed => (Has(REVIEWS', id) /\ REVIEWS'[id].is_disputed)]_vars

\* C5: every successful submit_review adds exactly one ledger entry under an id not
\* present before, and no step removes an entry or changes the rating, reviewer,
\* timestamp, service or content of an existing one.
C5_AppendOnly ==
    [][/\ (last'.op = "submit_review" /\ last'.result = "Ok") =>
             /\ ~Has(REVIEWS, last'.review_id)
             /\ DOMAIN REVIEWS' = (DOMAIN REVIEWS) \cup {last'.review_id}
       /\ \A id \in DOMAIN REVIEWS :
             /\ Has(REVIEWS', id)
             /\ REVIEWS'[id].rating = REVIEWS[id].rating
             /\ REVIEWS'[id].reviewer = REVIEWS[id].reviewer
             /\ REVIEWS'[id].timestamp = REVIEWS[id].timestamp
             /\ REVIEWS'[id].service = REVIEWS[id].service
             /\ REVIEWS'[id].content = REVIEWS[id].content
      ]_vars

\* C6: whenever submit_review or flag_dispute returns an error, the ledger, the index and
\* the UserReputation map are as they were before the call.
C6_ErrorsLeaveStorageUntouched ==
    [][(IsCall(last') /\ last'.result # "Ok") => UNCHANGED storage]_vars

\* C7: submit_review with a rating below 1 or above 5 fails with InvalidInput and leaves
\* the ledger, the index and UserReputation untouched; every ledger record has a rating
\* between 1 and 5.
C7_RatingValidated ==
    [][/\ (last'.op = "submit_review" /\ (last'.rating < 1 \/ last'.rating > 5)) =>
             (last'.result = "InvalidInput" /\ UNCHANGED storage)
       /\ \A id \in DOMAIN REVIEWS' : REVIEWS'[id].rating >= 1 /\ REVIEWS'[id].rating <= 5
      ]_vars

\* A submission with rating 0 was rejected while the ledger already held reviews.
C7_Witness ==
    /\ last.op = "submit_review" /\ last.rating = 0 /\ last.result = "InvalidInput"
    /\ REVIEWS # EmptyMap /\ USERS # EmptyMap

\* C8: after a successful call affecting u made within inactivity_decay_period of u's
\* previous activity, the persisted score is
\* max(0, (total - disputed) * time_weight_factor + volume * volume_weight_factor / 100
\*        - disputed * dispute_penalty) over the recomputed counts.
C8_ScoreFollowsFormula ==
    [][(Succeeded(last') /\ ElapsedBefore(last'.user) <= Params.inactivity_decay_period) =>
          USERS'[last'.user].reputation_score =
              FormulaScore(USERS'[last'.user], Params.time_weight_factor)
      ]_vars

\* C9: a call whose score computation has an intermediate result outside its integer
\* range does not succeed: no persisted score comes from a wrapped product
\* disputed_reviews * dispute_penalty.
C9_NoWrappedScore ==
    [][Succeeded(last') =>
          Cardinality(DisputedOf(REVIEWS', last'.user)) * Params.dispute_penalty < U32Mod
      ]_vars

\* C10: a recomputation for u that follows a successful recomputation for u at the same
\* block time, with the ledger unchanged, leaves UserReputation(u) as it was.
C10_RecomputeIdempotent ==
    [][(Succeeded(last) /\ Succeeded(last') /\ last'.user = last.user /\ REVIEWS' = REVIEWS) =>
          USERS'[last'.user] = USERS[last.user]
      ]_vars

\* flag_dispute repeated with the same reason at the same block time, right after a
\* successful recomputation for the same reviewer, who has another, undisputed review.
C10_Witness ==
    /\ Succeeded(last) /\ last.repeat /\ last.op = "flag_dispute"
    /\ REVIEWS[last.review_id].dispute_reason = <<last.reason>>
    /\ USERS[last.user].total_reviews = 2
    /\ USERS[last.user].disputed_reviews = 1
    /\ USERS[last.user].last_activity = time

\* C11: flag_dispute on a review id that is not in the ledger fails with NotFound, creates
\* no ledger entry for that id and leaves the ledger, the index and every UserReputation
\* record unchanged.
C11_UnknownReviewNotFound ==
    [][(last'.op = "flag_dispute" /\ ~Has(REVIEWS, last'.review_id)) =>
          /\ last'.result = "NotFound"
          /\ ~Has(REVIEWS', last'.review_id)
          /\ UNCHANGED storage
      ]_vars

\* A flag on an id absent from a ledger that holds other reviews and reputations.
C11_Witness ==
    /\ last.op = "flag_dispute" /\ last.result = "NotFound"
    /\ ~Has(REVIEWS, last.review_id)
    /\ REVIEWS # EmptyMap /\ USERS # EmptyMap

\* C12: every ledger record has a dispute_reason exactly when it is disputed: a successful
\* submit_review stores (false, None), a successful flag_dispute stores
\* (true, Some(reason)), also over an already disputed record, whose reason it replaces.
C12_ReasonIffDisputed ==
    [][/\ \A id \in DOMAIN REVIEWS' :
             REVIEWS'[id].is_disputed <=> (REVIEWS'[id].dispute_reason # <<>>)
       /\ (last'.op = "submit_review" /\ last'.result = "Ok") =>
             /\ ~REVIEWS'[last'.review_id].is_disputed
             /\ REVIEWS'[last'.review_id].dispute_reason = <<>>
       /\ (last'.op = "flag_dispute" /\ last'.result = "Ok") =>
             /\ REVIEWS'[last'.review_id].is_disputed
             /\ REVIEWS'[last'.review_id].dispute_reason = <<last'.reason>>
      ]_vars

\* A successful flag with reason "Spam" on a review that was already disputed, next to an
\* undisputed review of the same reviewer.
C12_Witness ==
    /\ last.op = "flag_dispute" /\ last.result = "Ok"
    /\ last.was_disputed /\ ~last.repeat
    /\ REVIEWS[last.review_id].dispute_reason = <<"Spam">>
    /\ \E id \in LedgerOf(REVIEWS, last.user) : ~REVIEWS[id].is_disputed


\* C15: the index mirrors the ledger: every indexed (user, review_id) entry resolves to a
\* ledger record whose reviewer is that user, and every ledger record is indexed under its
\* reviewer, so a recomputation never meets an index entry without a ledger record.
C15_IndexMirrorsLedger ==
    /\ \A k \in DOMAIN USER_REVIEWS :
           /\ USER_REVIEWS[k] = k[2]
           /\ Has(REVIEWS, k[2])
           /\ REVIEWS[k[2]].reviewer = k[1]
    /\ \A id \in DOMAIN REVIEWS :
           /\ Has(USER_REVIEWS, <<REVIEWS[id].reviewer, id>>)
           /\ USER_REVIEWS[<<REVIEWS[id].reviewer, id>>] = id
    /\ \A u \in Addrs : IndexedIds(USER_REVIEWS, u) = LedgerOf(REVIEWS, u)

\* Two reviewers hold three reviews between them and the last submission failed after its
\* ledger and index writes.
C15_Witness ==
    /\ last.op = "submit_review" /\ last.result # "Ok"
    /\ Has(REVIEWS, last.review_id)
    /\ Cardinality(DOMAIN REVIEWS) = 3
    /\ \A u \in Addrs : LedgerOf(REVIEWS, u) # {}

\* The user whose aggregate the call recorded in last' recomputes: the sender of a
\* submission, the reviewer of the flagged review.
TouchedUser ==
    IF last'.op = "submit_review" THEN {last'.sender}
    ELSE IF last'.op = "flag_dispute" /\ Has(REVIEWS, last'.review_id)
         THEN {REVIEWS[last'.review_id].reviewer}
         ELSE {}

\* C16: a state-changing operation touches one user's aggregate only: the record of every
\* other user, the caller of flag_dispute included, is neither changed nor created.
C16_OnlyReviewerTouched ==
    [][IsCall(last') =>
          \A u \in (Addrs \cup Flaggers \cup DOMAIN USERS \cup DOMAIN USERS') \ TouchedUser :
              /\ Has(USERS', u) <=> Has(USERS, u)
              /\ Has(USERS, u) => USERS'[u] = USERS[u]
      ]_vars

\* A caller without a record flags a review of a reviewer while the other reviewer holds a
\* record too.
C16_Witness ==
    /\ last.op = "flag_dispute" /\ last.result = "Ok"
    /\ last.sender # last.user /\ ~Has(USERS, last.sender)
    /\ USERS[last.user].disputed_reviews = 1
    /\ \E u \in DOMAIN USERS : u # last.user /\ USERS[u].total_reviews > 0

\* C17: flagging a dispute never raises the reviewer's score: after a successful
\* flag_dispute on a review that was not disputed before, the reviewer's stored score is at
\* most its value before the call.
C17_FlagNeverRaisesScore ==
    [][(/\ last'.op = "flag_dispute" /\ last'.result = "Ok"
        /\ Has(REVIEWS, last'.review_id)
        /\ ~REVIEWS[last'.review_id].is_disputed
        /\ Has(USERS, REVIEWS[last'.review_id].reviewer)) =>
          USERS'[REVIEWS[last'.review_id].reviewer].reputation_score
              <= USERS[REVIEWS[last'.review_id].reviewer].reputation_score
      ]_vars

\* C20: every stored UserReputation has transaction_volume zero, so the volume term of the
\* score is zero for every stored record.
C20_VolumeAlwaysZero ==
    \A u \in DOMAIN USERS :
        /\ USERS[u].transaction_volume = 0
        /\ REPUTATION_PARAMS # <<>> => VolumeWeight(USERS[u], Params) = Ok(0)

\* A record recomputed by two submissions and a dispute, beside a record with a positive
\* score.
C20_Witness ==
    /\ last.op = "flag_dispute" /\ last.result = "Ok"
    /\ USERS[last.user].total_reviews = 2
    /\ USERS[last.user].disputed_reviews = 1
    /\ USERS[last.user].transaction_volume = 0
    /\ \E u \in DOMAIN USERS :
           USERS[u].reputation_score > 0 /\ USERS[u].transaction_volume = 0


(***************************************************************************)
(* query_reputation_stats                                                  *)
(***************************************************************************)
\* A u32 counter after adding n to it: the build either panics on overflow or wraps.
AddU32(acc, n) ==
    IF acc.result # "Ok" THEN acc
    ELSE IF acc.value + n >= U32Mod
         THEN IF overflow_checks THEN Err("Panic") ELSE Ok((acc.value + n) % U32Mod)
         ELSE Ok(acc.value + n)

\* The fold of the ledger scan: the amount each review contributes is added to a u32
\* counter.
RECURSIVE FoldU32(_, _)
FoldU32(amount, ids) ==
    IF ids = {} THEN Ok(0)
    ELSE LET id == CHOOSE x \in ids : TRUE
         IN  AddU32(FoldU32(amount, ids \ {id}), amount[id])

\* total_rating as f64 / total_reviews as f64, kept as the pair of its operands.
AverageRating(total_rating, total_reviews) ==
    IF total_reviews > 0 THEN <<total_rating, total_reviews>> ELSE <<0, 1>>

query_reputation_stats(reviews, users) ==
    LET total_reviews == FoldU32([id \in DOMAIN reviews |-> 1], DOMAIN reviews)
        total_rating == FoldU32([id \in DOMAIN reviews |-> reviews[id].rating], DOMAIN reviews)
        disputed_reviews ==
            FoldU32([id \in DOMAIN reviews |-> IF reviews[id].is_disputed THEN 1 ELSE 0],
                    DOMAIN reviews)
    IN  IF total_reviews.result # "Ok" THEN total_reviews
        ELSE IF total_rating.result # "Ok" THEN total_rating
        ELSE IF disputed_reviews.result # "Ok" THEN disputed_reviews
        ELSE Ok([total_reviews |-> total_reviews.value,
                 total_users |-> Cardinality(DOMAIN users) % U32Mod,
                 average_rating |-> AverageRating(total_rating.value, total_reviews.value),
                 disputed_reviews |-> disputed_reviews.value])

\* The sum of amount[u] over the users in us.
RECURSIVE SumOver(_, _)
SumOver(amount, us) ==
    IF us = {} THEN 0
    ELSE LET u == CHOOSE x \in us : TRUE
         IN  amount[u] + SumOver(amount, us \ {u})

Reviewers(reviews) == {reviews[id].reviewer : id \in DOMAIN reviews}

\* C19: the global statistics agree with the per-user aggregates: the users holding a
\* UserReputation record are exactly the reviewers of the ledger, total_users is their
\* number, and the stored total_reviews and disputed_reviews of all users sum to the
\* reported totals.
C19_StatsAgreeWithAggregates ==
    LET stats == query_reputation_stats(REVIEWS, USERS)
        total == [u \in DOMAIN USERS |-> USERS[u].total_reviews]
        disputed == [u \in DOMAIN USERS |-> USERS[u].disputed_reviews]
    IN  /\ stats.result = "Ok"
        /\ DOMAIN USERS = Reviewers(REVIEWS)
        /\ stats.value.total_users = Cardinality(Reviewers(REVIEWS))
        /\ SumOver(total, DOMAIN USERS) = stats.value.total_reviews
        /\ SumOver(disputed, DOMAIN USERS) = stats.value.disputed_reviews


(***************************************************************************)
(* query_reviews                                                           *)
(***************************************************************************)
DEFAULT_LIMIT == 10

MAX_LIMIT == 30

\* The order of storage keys: byte-wise lexicographic, a proper prefix first.
KeyLess(a, b) ==
    \E i \in 1..(Len(a) + 1) :
        /\ \A j \in 1..(i - 1) : j <= Len(b) /\ a[j] = b[j]
        /\ \/ i = Len(a) + 1 /\ Len(b) >= i
           \/ i <= Len(a) /\ i <= Len(b) /\ a[i] < b[i]

\* The keys of a map in the order .range(.., Order::Ascending) yields them.
RECURSIVE Ascending(_)
Ascending(keys) ==
    IF keys = {} THEN <<>>
    ELSE LET first == CHOOSE k \in keys : \A j \in keys \ {k} : KeyLess(k, j)
         IN  <<first>> \o Ascending(keys \ {first})

\* Mutant of ClampLimit: the requested limit is not capped.
ClampLimitUncapped(limit) == IF limit = <<>> THEN DEFAULT_LIMIT ELSE limit[1]

\* limit.unwrap_or(DEFAULT_LIMIT).min(MAX_LIMIT)
ClampLimit(limit) ==
    LET requested == IF limit = <<>> THEN DEFAULT_LIMIT ELSE limit[1]
    IN  IF requested < MAX_LIMIT THEN requested ELSE MAX_LIMIT

\* Mutant of AfterCursor: the cursor itself is included (Bound::inclusive).
AtOrAfterCursor(start_after, key) ==
    start_after = <<>> \/ key = start_after[1] \/ KeyLess(start_after[1], key)

\* start_after.map(Bound::exclusive): the keys the range visits.
AfterCursor(start_after, key) == start_after = <<>> \/ KeyLess(start_after[1], key)

\* The closure passed to .filter in query_reviews.
PassesFilter(review, min_rating, max_rating, include_disputed) ==
    LET rating_in_range ==
            /\ min_rating # <<>> => review.rating >= min_rating[1]
            /\ max_rating # <<>> => review.rating <= max_rating[1]
    IN  rating_in_range /\ (include_disputed \/ ~review.is_disputed)

\* Timestamp's Display: the seconds, a dot and nine digits of nanoseconds.
TimestampToString(seconds) == Digits(seconds) \o <<46>> \o [i \in 1..9 |-> 48]

ToReviewResponse(review) ==
    [id |-> review.id, service |-> review.service, rating |-> review.rating,
     content |-> review.content, reviewer |-> review.reviewer,
     timestamp |-> TimestampToString(review.timestamp),
     is_disputed |-> review.is_disputed, dispute_reason |-> review.dispute_reason]

\* .take(limit) of a sequence.
Take(s, n) == SubSeq(s, 1, IF n < Len(s) THEN n ELSE Len(s))

\* `ordered` is the ledger's keys in ascending order.
query_reviews(reviews, ordered, start_after, limit, min_rating, max_rating, include_disputed) ==
    LET clamped == ClampLimit(limit)
        Visited(key) == AfterCursor(start_after, key)
        Kept(key) == PassesFilter(reviews[key], min_rating, max_rating, include_disputed)
        ranged == SelectSeq(ordered, Visited)
        filtered == SelectSeq(ranged, Kept)
        taken == Take(filtered, clamped)
    IN  Ok([i \in 1..Len(taken) |-> ToReviewResponse(reviews[taken[i]])])

(***************************************************************************)
(* query_user_reputation                                                   *)
(***************************************************************************)
\* Mutant of InWindow: the end of the window is excluded.
InWindowEndExcluded(timestamp, start_time, end_time) ==
    /\ start_time # <<>> => timestamp >= start_time[1]
    /\ end_time # <<>> => timestamp < end_time[1]

\* The match on (start_time, end_time) in the filter of query_user_reputation.
InWindow(timestamp, start_time, end_time) ==
    /\ start_time # <<>> => timestamp >= start_time[1]
    /\ end_time # <<>> => timestamp <= end_time[1]

\* deps.api.addr_validate on a well-formed address returns the address.
addr_validate(user) == Ok(user)

query_user_reputation(users, reviews, index, user, start_time, end_time) ==
    LET user_addr == addr_validate(user)
    IN  IF user_addr.result # "Ok" THEN user_addr
        ELSE IF ~Has(users, user_addr.value) THEN Err("NotFound")
        ELSE LET user_rep == users[user_addr.value]
                 kept == {id \in IndexedIds(index, user_addr.value) :
                             /\ Has(reviews, id)
                             /\ InWindow(reviews[id].timestamp, start_time, end_time)}
             IN  Ok([address |-> user_rep.address,
                     reputation_score |-> user_rep.reputation_score,
                     total_reviews |-> Cardinality(kept) % U32Mod,
                     disputed_reviews |->
                         Cardinality({id \in kept : reviews[id].is_disputed}) % U32Mod,
                     last_activity |-> TimestampToString(user_rep.last_activity),
                     transaction_volume |-> user_rep.transaction_volume])


(***************************************************************************)
(* A ledger grown past the page cap: in every block reviewer a submits a   *)
(* review, in every fourth block reviewer b submits one too, and the       *)
(* review of a in every sixth block is disputed.  The queries are asked of *)
(* every state the handlers leave.                                         *)
(***************************************************************************)
MaxBlocks == 30

Limits == {<<>>, <<0>>, <<3>>, <<MAX_LIMIT + 1>>}

Cursors == {<<>>, <<ReviewId(1, <<97>>)>>, <<Digits(2)>>}

RatingBounds == {<<>>, <<4>>}

QueryUsers == Addrs \cup {<<99>>}

WindowStarts == {<<>>, <<5>>}

WindowEnds == {<<>>, <<3>>, <<12>>}

IsQuery(c) == c.op \in {"query_reviews", "query_user_reputation", "query_reputation_stats"}

\* The record of a query: its request and what it returned.
QueryCall(op, request, r) ==
    [op |-> op, result |-> r.result, sender |-> <<>>, user |-> <<>>, review_id |-> <<>>,
     rating |-> 0, reason |-> "", repeat |-> FALSE, was_disputed |-> FALSE,
     request |-> request, response |-> r.value]

\* Whether `sender` submits a review in block t.
Due(sender, t) == sender = <<97>> \/ t % 4 = 1

\* The rating `sender` gives in block t.
RatingIn(sender, t) == IF sender = <<97>> THEN 1 + (t % 5) ELSE 4

\* Whether the review of a in block t is to be disputed.
DisputeDue(t) == t % 6 = 0

InitQuery ==
    /\ REVIEWS = EmptyMap
    /\ USER_REVIEWS = EmptyMap
    /\ USERS = EmptyMap
    /\ REPUTATION_PARAMS = <<TestParams>>
    /\ time = 0
    /\ overflow_checks \in BOOLEAN
    /\ last = NoCall
    /\ calls = 0

SubmitReviewQuery ==
    \E sender \in Addrs :
        /\ Due(sender, time)
        /\ ~Has(REVIEWS, ReviewId(time, sender))
        /\ submit_review(sender, "service1", RatingIn(sender, time), "Great service!",
                         "tx_proof_123", <<1, 2, 3>>)

FlagDisputeQuery ==
    /\ DisputeDue(time)
    /\ Has(REVIEWS, ReviewId(time, <<97>>))
    /\ ~REVIEWS[ReviewId(time, <<97>>)].is_disputed
    /\ \E sender \in Flaggers : flag_dispute(sender, ReviewId(time, <<97>>), "Spam")

NextBlock ==
    /\ time < MaxBlocks
    /\ \A sender \in Addrs : Due(sender, time) => Has(REVIEWS, ReviewId(time, sender))
    /\ DisputeDue(time) => REVIEWS[ReviewId(time, <<97>>)].is_disputed
    /\ time' = time + 1
    /\ last' = NoCall
    /\ UNCHANGED <<REVIEWS, USER_REVIEWS, USERS, REPUTATION_PARAMS, overflow_checks, calls>>

\* A query changes no storage, so one asked after another query would see what that one
\* saw: each query is asked of the state a handler or a new block left.
QueryReviews ==
    /\ ~IsQuery(last)
    /\ LET ordered == Ascending(DOMAIN REVIEWS)
       IN  \E start_after \in Cursors, limit \in Limits, min_rating \in RatingBounds,
              max_rating \in RatingBounds, include_disputed \in BOOLEAN :
               last' = QueryCall("query_reviews",
                                 [start_after |-> start_after, limit |-> limit,
                                  min_rating |-> min_rating, max_rating |-> max_rating,
                                  include_disputed |-> include_disputed],
                                 query_reviews(REVIEWS, ordered, start_after, limit,
                                               min_rating, max_rating, include_disputed))
    /\ UNCHANGED <<REVIEWS, USER_REVIEWS, USERS, REPUTATION_PARAMS, time, overflow_checks,
                   calls>>

QueryUserReputation ==
    /\ ~IsQuery(last)
    /\ \E user \in QueryUsers, start_time \in WindowStarts, end_time \in WindowEnds :
           last' = QueryCall("query_user_reputation",
                             [user |-> user, start_time |-> start_time,
                              end_time |-> end_time],
                             query_user_reputation(USERS, REVIEWS, USER_REVIEWS, user,
                                                   start_time, end_time))
    /\ UNCHANGED <<REVIEWS, USER_REVIEWS, USERS, REPUTATION_PARAMS, time, overflow_checks,
                   calls>>

QueryReputationStats ==
    /\ ~IsQuery(last)
    /\ last' = QueryCall("query_reputation_stats", <<>>,
                         query_reputation_stats(REVIEWS, USERS))
    /\ UNCHANGED <<REVIEWS, USER_REVIEWS, USERS, REPUTATION_PARAMS, time, overflow_checks,
                   calls>>

NextQuery ==
    \/ SubmitReviewQuery
    \/ FlagDisputeQuery
    \/ NextBlock
    \/ QueryReviews
    \/ QueryUserReputation
    \/ QueryReputationStats

SpecQuery == InitQuery /\ [][NextQuery]_vars


\* C13: query_reviews returns at most min(limit, 30) results, at most 10 when no limit is
\* given; a request above the cap is answered, not rejected, and never with more than 30
\* results.
C13_PageSizeCapped ==
    last.op = "query_reviews" =>
        /\ last.result = "Ok"
        /\ Len(last.response) <= 30
        /\ last.request.limit = <<>> => Len(last.response) <= 10
        /\ last.request.limit # <<>> => Len(last.response) <= last.request.limit[1]

\* A request for 31 results over a ledger with more than 30 matching records is answered
\* with 30.
C13_Witness ==
    /\ last.op = "query_reviews" /\ last.result = "Ok"
    /\ last.request.limit = <<31>>
    /\ ~last.request.include_disputed
    /\ Len(last.response) = 30
    /\ Cardinality({id \in DOMAIN REVIEWS : ~REVIEWS[id].is_disputed}) > 31

\* The ledger records a query_reviews request selects: strictly after the cursor and
\* satisfying the filters.
Matching(request) ==
    {id \in DOMAIN REVIEWS :
        /\ request.start_after # <<>> => KeyLess(request.start_after[1], id)
        /\ request.min_rating # <<>> => REVIEWS[id].rating >= request.min_rating[1]
        /\ request.max_rating # <<>> => REVIEWS[id].rating <= request.max_rating[1]
        /\ ~request.include_disputed => ~REVIEWS[id].is_disputed}

\* The page size a request asks for after clamping: 10 by default, 30 at most.
PageSize(request) ==
    LET asked == IF request.limit = <<>> THEN 10 ELSE request.limit[1]
    IN  IF asked > 30 THEN 30 ELSE asked

\* C14: query_reviews returns exactly the first `limit` (after clamping) ledger records
\* among those strictly after the cursor that satisfy the filters, in ascending identifier
\* order: nothing failing a filter is returned and no earlier matching record is skipped.
C14_FirstMatchingPage ==
    last.op = "query_reviews" =>
        LET page == last.response
            matching == Matching(last.request)
            size == PageSize(last.request)
            returned == {page[i].id : i \in 1..Len(page)}
        IN  /\ last.result = "Ok"
            /\ Len(page) = IF Cardinality(matching) < size THEN Cardinality(matching) ELSE size
            /\ returned \subseteq matching
            /\ \A i, j \in 1..Len(page) : i < j => KeyLess(page[i].id, page[j].id)
            /\ \A id \in matching \ returned : \A i \in 1..Len(page) : KeyLess(page[i].id, id)
            /\ \A i \in 1..Len(page) :
                   /\ page[i].rating = REVIEWS[page[i].id].rating
                   /\ page[i].reviewer = REVIEWS[page[i].id].reviewer
                   /\ page[i].is_disputed = REVIEWS[page[i].id].is_disputed
                   /\ page[i].dispute_reason = REVIEWS[page[i].id].dispute_reason

\* A default page that starts after a cursor held by the ledger, passes over a disputed
\* record and a record above the maximum rating, and is cut at ten records.
C14_Witness ==
    /\ last.op = "query_reviews" /\ last.result = "Ok"
    /\ last.request.start_after = <<ReviewId(1, <<97>>)>>
    /\ Has(REVIEWS, ReviewId(1, <<97>>))
    /\ last.request.limit = <<>>
    /\ last.request.max_rating = <<4>> /\ last.request.min_rating = <<>>
    /\ ~last.request.include_disputed
    /\ Len(last.response) = 10
    /\ Cardinality(Matching(last.request)) > 10
    /\ \E id \in DOMAIN REVIEWS :
           /\ KeyLess(last.response[1].id, id) /\ KeyLess(id, last.response[10].id)
           /\ REVIEWS[id].is_disputed /\ REVIEWS[id].rating <= 4
    /\ \E id \in DOMAIN REVIEWS :
           /\ KeyLess(last.response[1].id, id) /\ KeyLess(id, last.response[10].id)
           /\ REVIEWS[id].rating = 5

\* The reviews of user u whose timestamp lies in the inclusive window of a request.
InRequestWindow(request, u) ==
    {id \in LedgerOf(REVIEWS, u) :
        /\ request.start_time # <<>> => REVIEWS[id].timestamp >= request.start_time[1]
        /\ request.end_time # <<>> => REVIEWS[id].timestamp <= request.end_time[1]}

\* C18: query_user_reputation reports the number of the user's reviews in the inclusive
\* window and the number of those that are disputed, together with the stored score,
\* last activity and volume; it fails with NotFound for a user without a stored
\* UserReputation and changes no stored state.
C18_WindowedReputation ==
    [][last'.op = "query_user_reputation" =>
          LET u == last'.request.user
              window == InRequestWindow(last'.request, u)
          IN  /\ UNCHANGED <<storage, REPUTATION_PARAMS>>
              /\ ~Has(USERS, u) => last'.result = "NotFound"
              /\ Has(USERS, u) =>
                    /\ last'.result = "Ok"
                    /\ last'.response.total_reviews = Cardinality(window)
                    /\ last'.response.disputed_reviews =
                           Cardinality({id \in window : REVIEWS[id].is_disputed})
                    /\ last'.response.reputation_score = USERS[u].reputation_score
                    /\ last'.response.last_activity =
                           TimestampToString(USERS[u].last_activity)
                    /\ last'.response.transaction_volume = USERS[u].transaction_volume
      ]_vars

\* The window from 5 to 12 cuts eight of the reviews of a out of more, the disputed
\* reviews of blocks 6 and 12 among them.
C18_Witness ==
    /\ last.op = "query_user_reputation" /\ last.result = "Ok"
    /\ last.request.user = <<97>>
    /\ last.request.start_time = <<5>> /\ last.request.end_time = <<12>>
    /\ last.response.total_reviews = 8
    /\ last.response.disputed_reviews = 2
    /\ USERS[<<97>>].total_reviews > 8
    /\ USERS[<<97>>].disputed_reviews > 2

====
